---------------------------- MODULE Spec2Model ----------------------------
(***************************************************************************)
(* A model of advanced-vector/vector.h: RawMemory<T> (an owner of one raw  *)
(* block of slots) and Vector<T> (live elements [0, size_) of a block).    *)
(*                                                                         *)
(* The heap is a map from addresses to blocks; a block is a sequence of    *)
(* slots; a slot is Dead (raw, no object lives in it) or holds the value   *)
(* of a live object.  Every public operation of Vector is one action; an   *)
(* element constructor or assignment that may throw throws when the        *)
(* action's failure input says so.                                         *)
(***************************************************************************)
EXTENDS Integers, Sequences, FiniteSets

\* ------------------------------------------------------------------------
\* Bounds of the model.
\* ------------------------------------------------------------------------

\* The slots all containers together may own once an operation has ended.
MaxSlots == 4

\* Element values a caller passes in are 1..NumValues.
NumValues == 2

\* ------------------------------------------------------------------------
\* Constants of the program.
\* ------------------------------------------------------------------------

\* nullptr: the address of an empty RawMemory.
Null == 0

\* A slot of raw memory in which no object lives.
Dead == -1

\* The value of a value-initialised T; a moved-from T of a type whose move
\* empties its source holds it too.
DefaultValue == 0

\* The Vector objects of the program.
Objs == {"a", "b"}

\* Addresses operator new may return: the containers' blocks and one
\* temporary block can be allocated at a time.
Addrs == 1..(Cardinality(Objs) + 1)

Values == 1..NumValues

\* With two objects the callers pass in one value fewer.
PairValues == 1..(NumValues - 1)

\* The element types T the template is instantiated with.
\*   "Movable":  nothrow move-constructible, copyable; a move empties its
\*               source; copying and constructing from arguments may throw.
\*   "Copyable": copyable, its move constructor may throw and moves by
\*               copying (the source keeps its value); every construction
\*               and assignment may throw.
ElemTypes == {"Movable", "Copyable"}

VARIABLES
    etype,   \* the element type T
    mem,     \* the heap: address -> block (<<>>: not allocated)
    vec,     \* object -> [alive, buf, cap, size]: data_.buffer_, data_.capacity_, size_
    last,    \* the last operation called and how it ended
    ub       \* the program broke on undefined behaviour

vars == <<etype, mem, vec, last, ub>>

\* ------------------------------------------------------------------------
\* Type traits.
\* ------------------------------------------------------------------------

NothrowMoveConstructible(t) == t = "Movable"

CopyConstructible(t) == t \in {"Movable", "Copyable"}

\* The condition of the if constexpr in FillNewData.
UsesMove(t) == NothrowMoveConstructible(t) \/ ~CopyConstructible(t)

\* What a move (construction or assignment) from an object of value v
\* leaves in it.
MovedFrom(t, v) == IF NothrowMoveConstructible(t) THEN DefaultValue ELSE v

\* May moving an element (construction or assignment) throw?
MoveMayThrow(t) == ~NothrowMoveConstructible(t)

\* ------------------------------------------------------------------------
\* Raw memory.
\* ------------------------------------------------------------------------

Min(x, y) == IF x <= y THEN x ELSE y

Max(x, y) == IF x >= y THEN x ELSE y

\* The slots of the block at address a; slot i (from 0) is Block(m, a)[i + 1].
Block(m, a) == IF a = Null THEN <<>> ELSE m[a]

Slot(m, a, i) == Block(m, a)[i + 1]

\* The number of live objects in the block at a.
LiveIn(m, a) == Cardinality({i \in DOMAIN Block(m, a) : Block(m, a)[i] # Dead})

\* RawMemory::Allocate: n raw slots at a fresh address, nullptr for n = 0.
Allocate(m, n) ==
    IF n = 0 THEN [addr |-> Null, mem |-> m]
    ELSE LET a == CHOOSE x \in Addrs :
                      /\ m[x] = <<>>
                      /\ \A y \in Addrs : m[y] = <<>> => x <= y
         IN [addr |-> a, mem |-> [m EXCEPT ![a] = [i \in 1..n |-> Dead]]]

\* What the heap shows at an address whose block was released when it was
\* not allocated.
ReleasedTwice == <<Dead - 1>>

\* RawMemory::Deallocate: operator delete; the objects still live in the
\* block are lost with it.  operator delete(nullptr) does nothing.
Deallocate(m, a) ==
    IF a = Null THEN m
    ELSE IF m[a] \in {<<>>, ReleasedTwice} THEN [m EXCEPT ![a] = ReleasedTwice]
    ELSE [m EXCEPT ![a] = <<>>]

\* The indices of the slots of a block.
Cells == 0..MaxSlots

\* Slots [at, at + count) of block a set to f[i], i the slot's index.
WriteSlots(m, a, at, count, f) ==
    IF count <= 0 THEN m
    ELSE [m EXCEPT ![a] = [k \in DOMAIN m[a] |->
             IF at + 1 <= k /\ k <= at + count THEN f[k - 1] ELSE m[a][k]]]

\* A live slot among [from, from + count) of block a is Dead: reading,
\* assigning or destroying it is undefined.
DeadIn(m, a, from, count) ==
    \E i \in from..(from + count - 1) : Slot(m, a, i) = Dead

\* std::destroy_n that destroys nothing.
DestroyNNothing(m, a, from, count) == m

\* std::destroy_n.
DestroyN(m, a, from, count) == WriteSlots(m, a, from, count, [i \in Cells |-> Dead])

\* std::uninitialized_copy_n that leaves the copies it made when one throws.
UninitializedCopyNNoRollback(m, src, from, dst, to, count, fail) ==
    LET made == IF 1 <= fail /\ fail <= count THEN fail - 1 ELSE count
    IN [mem   |-> WriteSlots(m, dst, to, made,
                      [i \in Cells |-> Slot(m, src, from + (i - to))]),
        threw |-> made < count]

\* std::uninitialized_copy_n of count elements, src[from..) to dst[to..).
\* fail = k in 1..count: the k-th copy throws and the k - 1 copies made are
\* destroyed again.
UninitializedCopyN(m, src, from, dst, to, count, fail) ==
    LET made == IF 1 <= fail /\ fail <= count THEN fail - 1 ELSE count
        m1   == WriteSlots(m, dst, to, made,
                    [i \in Cells |-> Slot(m, src, from + (i - to))])
    IN IF made < count
       THEN [mem |-> DestroyN(m1, dst, to, made), threw |-> TRUE]
       ELSE [mem |-> m1, threw |-> FALSE]

\* std::uninitialized_move_n with a move constructor that does not throw.
UninitializedMoveN(t, m, src, from, dst, to, count) ==
    LET m1 == WriteSlots(m, dst, to, count,
                         [i \in Cells |-> Slot(m, src, from + (i - to))])
    IN WriteSlots(m1, src, from, count,
                  [i \in Cells |-> MovedFrom(t, Slot(m, src, i))])

\* std::uninitialized_value_construct_n that leaves the objects it made
\* when a constructor throws.
UninitializedValueConstructNNoRollback(m, a, at, count, fail) ==
    LET made == IF 1 <= fail /\ fail <= count THEN fail - 1 ELSE count
    IN [mem   |-> WriteSlots(m, a, at, made, [i \in Cells |-> DefaultValue]),
        threw |-> made < count]

\* std::uninitialized_value_construct_n; fail as in UninitializedCopyN.
UninitializedValueConstructN(m, a, at, count, fail) ==
    LET made == IF 1 <= fail /\ fail <= count THEN fail - 1 ELSE count
        m1   == WriteSlots(m, a, at, made, [i \in Cells |-> DefaultValue])
    IN IF made < count
       THEN [mem |-> DestroyN(m1, a, at, made), threw |-> TRUE]
       ELSE [mem |-> m1, threw |-> FALSE]

\* ------------------------------------------------------------------------
\* Vector: state and queries.
\* ------------------------------------------------------------------------

\* A Vector that is not constructed, and a default-constructed one.
NoVector == [alive |-> FALSE, buf |-> Null, cap |-> 0, size |-> 0]

EmptyVector == [alive |-> TRUE, buf |-> Null, cap |-> 0, size |-> 0]

\* FillNewData relocating nothing.
FillNewDataNothing(t, m, v, new_data, from, to, count, fail) ==
    [mem |-> m, threw |-> FALSE]

\* Vector::FillNewData: relocate count elements of v's block into new_data,
\* by move if that cannot throw, else by copy.
FillNewData(t, m, v, new_data, from, to, count, fail) ==
    IF UsesMove(t)
    THEN [mem   |-> UninitializedMoveN(t, m, v.buf, from, new_data, to, count),
          threw |-> FALSE]
    ELSE UninitializedCopyN(m, v.buf, from, new_data, to, count, fail)

\* The slots of x from 0 to size_ - 1, as the sequence a caller reads.
Elems(m, v) == [i \in 1..v.size |-> Block(m, v.buf)[i]]

\* The slots of x beyond size_.
Spare(m, v) == [i \in 1..(v.cap - v.size) |-> Block(m, v.buf)[v.size + i]]

RECURSIVE SumCap(_, _)
SumCap(vs, S) ==
    IF S = {} THEN 0
    ELSE LET x == CHOOSE y \in S : TRUE IN vs[x].cap + SumCap(vs, S \ {x})

\* Storage for x of new_capacity slots is within the model's bound.
Fits(x, new_capacity) == new_capacity + SumCap(vec, Objs \ {x}) <= MaxSlots

\* The value of last.pushed when the history of last.obj is not a default
\* construction followed by appends that all returned.
NoRun == <<Dead>>

\* How an operation on x ended.
\*   ok:     it returned (FALSE: it threw)
\*   failed: an element constructor or assignment threw inside it
\*   path:   the branch it took
\*   ret:    the position it returned (-1: none)
\*   arg:    the element value, the count or the element index passed in
\*           (0: none)
\*   leak:   live objects whose block it released without destroying them
\*   before: the elements of x before an Emplace that returned
\*   pushed: the values appended to x since its default construction, when
\*           nothing else was called since
\*   thrown: in Vector(size_t), Vector(const Vector&), Reserve, EmplaceBack
\*           and PushBack, the construction that threw, counted from 1
\*           (0: none)
Outcome(op, x, ok, failed, path, ret, arg, leak) ==
    [op |-> op, obj |-> x, ok |-> ok, failed |-> failed, path |-> path,
     ret |-> ret, arg |-> arg, leak |-> leak, thrown |-> 0,
     before |-> IF op = "Emplace" /\ ok THEN Elems(mem, vec[x]) ELSE <<>>,
     pushed |-> IF op = "Vector()" THEN <<>>
                ELSE IF /\ op = "EmplaceBack" /\ ok
                        /\ last.obj = x /\ last.pushed # NoRun
                THEN Append(last.pushed, arg)
                ELSE NoRun]

\* The operation reads, assigns or destroys an object that does not exist,
\* or walks an invalid range: the program breaks and is followed no
\* further.
Undefined(op, x) ==
    /\ ub' = TRUE
    /\ last' = Outcome(op, x, FALSE, FALSE, "undefined", -1, 0, 0)
    /\ UNCHANGED <<etype, mem, vec>>

Init ==
    /\ etype \in ElemTypes
    /\ mem = [a \in Addrs |-> <<>>]
    /\ vec = [x \in Objs |-> NoVector]
    /\ last = [op |-> "none", obj |-> "a", ok |-> TRUE, failed |-> FALSE,
               path |-> "", ret |-> -1, arg |-> 0, leak |-> 0,
               thrown |-> 0, before |-> <<>>, pushed |-> NoRun]
    /\ ub = FALSE

\* The outcome of an operation in which the k-th construction threw.
Thrown(out, k) == [out EXCEPT !.thrown = k]

\* An operation's end: the heap, the objects and the outcome it leaves.
Done(m, vs, out) ==
    /\ mem' = m
    /\ vec' = vs
    /\ last' = out
    /\ UNCHANGED <<etype, ub>>

\* ------------------------------------------------------------------------
\* Constructors and destructor.
\* ------------------------------------------------------------------------

\* Vector() noexcept = default.
DefaultConstruct(x) ==
    /\ ~ub /\ ~vec[x].alive
    /\ Done(mem, [vec EXCEPT ![x] = EmptyVector],
            Outcome("Vector()", x, TRUE, FALSE, "", -1, 0, 0))

\* explicit Vector(size_t size).
SizedConstruct(x, size, fail) ==
    /\ ~ub /\ ~vec[x].alive /\ Fits(x, size)
    /\ LET al == Allocate(mem, size)
           r  == UninitializedValueConstructN(al.mem, al.addr, 0, size, fail)
       IN IF r.threw
          THEN \* data_ is destroyed as the exception leaves the constructor
               Done(Deallocate(r.mem, al.addr), vec,
                    Thrown(Outcome("Vector(n)", x, FALSE, TRUE, "", -1, 0,
                                   LiveIn(r.mem, al.addr)), fail))
          ELSE Done(r.mem,
                    [vec EXCEPT ![x] = [alive |-> TRUE, buf |-> al.addr,
                                        cap |-> size, size |-> size]],
                    Outcome("Vector(n)", x, TRUE, FALSE, "", -1, 0, 0))

\* explicit Vector(std::initializer_list<T> list): the list's elements are
\* const, so both branches of the if constexpr copy them.
ListConstruct(x, list, fail) ==
    /\ ~ub /\ ~vec[x].alive /\ Fits(x, Len(list))
    /\ LET al == Allocate(mem, Len(list))
       IN IF 1 <= fail /\ fail <= Len(list)
          THEN Done(Deallocate(al.mem, al.addr), vec,
                    Outcome("Vector(list)", x, FALSE, TRUE, "", -1, 0,
                            LiveIn(al.mem, al.addr)))
          ELSE Done(WriteSlots(al.mem, al.addr, 0, Len(list),
                               [i \in Cells |-> list[i + 1]]),
                    [vec EXCEPT ![x] = [alive |-> TRUE, buf |-> al.addr,
                                        cap |-> Len(list), size |-> Len(list)]],
                    Outcome("Vector(list)", x, TRUE, FALSE, "", -1, 0, 0))

\* A copy constructor that copies the members: both objects hold one block.
CopyConstructShallow(x, y, fail) ==
    /\ ~ub /\ ~vec[x].alive /\ vec[y].alive /\ Fits(x, vec[y].size)
    /\ Done(mem, [vec EXCEPT ![x] = vec[y]],
            Outcome("Vector(const&)", x, TRUE, FALSE, "", -1, 0, 0))

\* explicit Vector(const Vector& other).
CopyConstruct(x, y, fail) ==
    /\ ~ub /\ ~vec[x].alive /\ vec[y].alive /\ Fits(x, vec[y].size)
    /\ LET other == vec[y]
           al == Allocate(mem, other.size)
           r  == UninitializedCopyN(al.mem, other.buf, 0, al.addr, 0,
                                    other.size, fail)
       IN IF DeadIn(mem, other.buf, 0, other.size)
          THEN Undefined("Vector(const&)", x)
          ELSE IF r.threw
          THEN Done(Deallocate(r.mem, al.addr), vec,
                    Thrown(Outcome("Vector(const&)", x, FALSE, TRUE, "", -1,
                                   0, LiveIn(r.mem, al.addr)), fail))
          ELSE Done(r.mem,
                    [vec EXCEPT ![x] = [alive |-> TRUE, buf |-> al.addr,
                                        cap |-> other.size,
                                        size |-> other.size]],
                    Outcome("Vector(const&)", x, TRUE, FALSE, "", -1, 0, 0))

\* A move constructor without other.size_ = 0.
MoveConstructKeepsSize(x, y) ==
    /\ ~ub /\ ~vec[x].alive /\ vec[y].alive
    /\ Done(mem,
            [vec EXCEPT ![x] = [alive |-> TRUE, buf |-> vec[y].buf,
                                cap |-> vec[y].cap, size |-> vec[y].size],
                        ![y] = [alive |-> TRUE, buf |-> Null, cap |-> 0,
                                size |-> vec[y].size]],
            Outcome("Vector(&&)", x, TRUE, FALSE, "", -1, 0, 0))

\* Vector(Vector&& other) noexcept, with RawMemory(RawMemory&&).
MoveConstruct(x, y) ==
    /\ ~ub /\ ~vec[x].alive /\ vec[y].alive
    /\ Done(mem,
            [vec EXCEPT ![x] = [alive |-> TRUE, buf |-> vec[y].buf,
                                cap |-> vec[y].cap, size |-> vec[y].size],
                        ![y] = [alive |-> TRUE, buf |-> Null, cap |-> 0,
                                size |-> 0]],
            Outcome("Vector(&&)", x, TRUE, FALSE, "", -1, 0, 0))

\* ~Vector(), then ~RawMemory() of data_.
Destroy(x) ==
    /\ ~ub /\ vec[x].alive
    /\ LET v == vec[x]
       IN IF v.buf # Null /\ DeadIn(mem, v.buf, 0, v.size)
          THEN Undefined("~Vector", x)
          ELSE LET m1 == IF v.buf # Null
                         THEN DestroyN(mem, v.buf, 0, v.size) ELSE mem
               IN Done(Deallocate(m1, v.buf), [vec EXCEPT ![x] = NoVector],
                       Outcome("~Vector", x, TRUE, FALSE, "", -1, 0,
                               LiveIn(m1, v.buf)))

\* ------------------------------------------------------------------------
\* Assignment and swap.
\* ------------------------------------------------------------------------

\* Vector::Swap, with RawMemory::Swap.
Swap(x, y) ==
    /\ ~ub /\ vec[x].alive /\ vec[y].alive
    /\ Done(mem, [vec EXCEPT ![x] = vec[y], ![y] = vec[x]],
            Outcome("Swap", x, TRUE, FALSE, "", -1, 0, 0))

\* A copy assignment that copies the members: the destination takes the
\* source's block.
CopyAssignMembers(x, y, fail) ==
    /\ ~ub /\ vec[x].alive /\ vec[y].alive
    /\ Done(mem, [vec EXCEPT ![x] = vec[y]],
            Outcome("operator=(const&)", x, TRUE, FALSE,
                    IF x = y THEN "self" ELSE "reuse", -1, 0, 0))

\* Vector& operator=(const Vector& rhs).  fail = k: the k-th element
\* assignment or construction throws.
CopyAssign(x, y, fail) ==
    /\ ~ub /\ vec[x].alive /\ vec[y].alive
    /\ LET v   == vec[x]
           rhs == vec[y]
           op  == "operator=(const&)"
       IN IF x = y
          THEN Done(mem, vec, Outcome(op, x, TRUE, FALSE, "self", -1, 0, 0))
          ELSE IF rhs.size > v.cap
          THEN \* Vector rhs_copy(rhs); Swap(rhs_copy); ~rhs_copy
               LET al == Allocate(mem, rhs.size)
                   r  == UninitializedCopyN(al.mem, rhs.buf, 0, al.addr, 0,
                                            rhs.size, fail)
                   m2 == DestroyN(r.mem, v.buf, 0, v.size)
               IN /\ Fits(x, rhs.size)
                  /\ IF DeadIn(mem, rhs.buf, 0, rhs.size)
                     THEN Undefined(op, x)
                     ELSE IF r.threw
                     THEN Done(Deallocate(r.mem, al.addr), vec,
                               Outcome(op, x, FALSE, TRUE, "realloc", -1, 0,
                                       LiveIn(r.mem, al.addr)))
                     ELSE IF DeadIn(mem, v.buf, 0, v.size)
                     THEN Undefined(op, x)
                     ELSE Done(Deallocate(m2, v.buf),
                               [vec EXCEPT ![x] = [alive |-> TRUE,
                                                   buf |-> al.addr,
                                                   cap |-> rhs.size,
                                                   size |-> rhs.size]],
                               Outcome(op, x, TRUE, FALSE, "realloc", -1, 0,
                                       LiveIn(m2, v.buf)))
          ELSE LET both == Min(v.size, rhs.size)
                   \* data_[i] = rhs[i] for i < both, up to a throw
                   done == IF 1 <= fail /\ fail <= both THEN fail - 1 ELSE both
                   m1 == WriteSlots(mem, v.buf, 0, done,
                                    [i \in Cells |-> Slot(mem, rhs.buf, i)])
               IN IF DeadIn(mem, v.buf, 0, v.size)
                     \/ DeadIn(mem, rhs.buf, 0, rhs.size)
                  THEN Undefined(op, x)
                  ELSE IF done < both
                  THEN Done(m1, vec,
                            Outcome(op, x, FALSE, TRUE, "reuse", -1, 0, 0))
                  ELSE IF rhs.size >= v.size
                  THEN LET r == UninitializedCopyN(m1, rhs.buf, both, v.buf,
                                    both, rhs.size - v.size, fail - both)
                       IN IF r.threw
                          THEN Done(r.mem, vec,
                                    Outcome(op, x, FALSE, TRUE, "reuse", -1,
                                            0, 0))
                          ELSE Done(r.mem,
                                    [vec EXCEPT ![x].size = rhs.size],
                                    Outcome(op, x, TRUE, FALSE, "reuse", -1,
                                            0, 0))
                  ELSE Done(DestroyN(m1, v.buf, both, v.size - rhs.size),
                            [vec EXCEPT ![x].size = rhs.size],
                            Outcome(op, x, TRUE, FALSE, "reuse", -1, 0, 0))

\* A move assignment after which rhs still refers to the block it gave.
MoveAssignKeepsSource(x, y) ==
    /\ ~ub /\ vec[x].alive /\ vec[y].alive
    /\ Done(Deallocate(mem, IF x = y THEN Null ELSE vec[x].buf),
            [vec EXCEPT ![x] = vec[y]],
            Outcome("operator=(&&)", x, TRUE, FALSE,
                    IF x = y THEN "self" ELSE "", -1, 0, 0))

\* Vector& operator=(Vector&& rhs), with RawMemory::operator=(RawMemory&&):
\* Deallocate(buffer_), buffer_ = nullptr, capacity_ = 0, Swap(rhs).
MoveAssign(x, y) ==
    /\ ~ub /\ vec[x].alive /\ vec[y].alive
    /\ IF x = y
       THEN Done(mem, vec,
                 Outcome("operator=(&&)", x, TRUE, FALSE, "self", -1, 0, 0))
       ELSE Done(Deallocate(mem, vec[x].buf),
                 [vec EXCEPT ![x] = [alive |-> TRUE, buf |-> vec[y].buf,
                                     cap |-> vec[y].cap,
                                     size |-> vec[y].size],
                             ![y] = [alive |-> TRUE, buf |-> Null, cap |-> 0,
                                     size |-> 0]],
                 Outcome("operator=(&&)", x, TRUE, FALSE, "", -1, 0,
                         LiveIn(mem, vec[x].buf)))

\* ------------------------------------------------------------------------
\* Capacity.
\* ------------------------------------------------------------------------

\* Vector::Reserve on the heap m and the object v.  fail = k in 1..size_:
\* relocating the k-th element throws (by copy only).
ReserveStep(t, m, v, new_capacity, fail) ==
    IF new_capacity <= v.cap
    THEN [mem |-> m, v |-> v, threw |-> FALSE, path |-> "noop", leak |-> 0]
    ELSE LET al == Allocate(m, new_capacity)
             r  == FillNewData(t, al.mem, v, al.addr, 0, 0, v.size, fail)
             m2 == DestroyN(r.mem, v.buf, 0, v.size)
         IN IF r.threw
            THEN \* ~RawMemory of new_data
                 [mem |-> Deallocate(r.mem, al.addr), v |-> v, threw |-> TRUE,
                  path |-> "realloc", leak |-> LiveIn(r.mem, al.addr)]
            ELSE \* data_.Swap(new_data), then ~RawMemory of new_data
                 [mem |-> Deallocate(m2, v.buf),
                  v |-> [v EXCEPT !.buf = al.addr, !.cap = new_capacity],
                  threw |-> FALSE, path |-> "realloc",
                  leak |-> LiveIn(m2, v.buf)]

\* The failure inputs of a relocation of x's elements.
RelocationFails(x) == IF UsesMove(etype) THEN {0} ELSE 0..vec[x].size

\* void Reserve(size_t new_capacity).
Reserve(x, new_capacity, fail) ==
    /\ ~ub /\ vec[x].alive /\ Fits(x, Max(new_capacity, vec[x].cap))
    /\ LET v == vec[x]
           r == ReserveStep(etype, mem, v, new_capacity, fail)
       IN IF new_capacity > v.cap /\ DeadIn(mem, v.buf, 0, v.size)
          THEN Undefined("Reserve", x)
          ELSE Done(r.mem, [vec EXCEPT ![x] = r.v],
                    Thrown(Outcome("Reserve", x, ~r.threw, r.threw, r.path,
                                   -1, new_capacity, r.leak),
                           IF r.threw THEN fail ELSE 0))

\* void Resize(size_t new_size).  fail = k in 1..size_: relocating the k-th
\* element throws; fail = size_ + k: constructing the k-th new element throws.
Resize(x, new_size, fail) ==
    /\ ~ub /\ vec[x].alive /\ Fits(x, Max(new_size, vec[x].cap))
    /\ LET v == vec[x]
       IN IF new_size <= v.size
          THEN IF DeadIn(mem, v.buf, new_size, v.size - new_size)
               THEN Undefined("Resize", x)
               ELSE Done(DestroyN(mem, v.buf, new_size, v.size - new_size),
                         [vec EXCEPT ![x].size = new_size],
                         Outcome("Resize", x, TRUE, FALSE, "shrink", -1,
                                 new_size, 0))
          ELSE LET r == ReserveStep(etype, mem, v, new_size, fail)
                   c == UninitializedValueConstructN(r.mem, r.v.buf, v.size,
                            new_size - v.size, fail - v.size)
               IN IF new_size > v.cap /\ DeadIn(mem, v.buf, 0, v.size)
                  THEN Undefined("Resize", x)
                  ELSE IF r.threw
                  THEN Done(r.mem, [vec EXCEPT ![x] = r.v],
                            Outcome("Resize", x, FALSE, TRUE, r.path, -1,
                                    new_size, r.leak))
                  ELSE IF c.threw
                  THEN \* size_ = new_size is not reached
                       Done(c.mem, [vec EXCEPT ![x] = r.v],
                            Outcome("Resize", x, FALSE, TRUE, r.path, -1,
                                    new_size, r.leak))
                  ELSE Done(c.mem,
                            [vec EXCEPT ![x] = [r.v EXCEPT !.size = new_size]],
                            Outcome("Resize", x, TRUE, FALSE, r.path, -1,
                                    new_size, r.leak))

\* ------------------------------------------------------------------------
\* Append.
\* ------------------------------------------------------------------------

\* GrownCapacity with the growth an off-by-one reallocation would make.
GrownCapacityByOne(size) == size + 1

\* The capacity EmplaceBack and Emplace grow a full container to.
GrownCapacity(size) == IF size = 0 THEN 1 ELSE size * 2

\* T& EmplaceBack(Args&&... ctor_args), the element constructed being value.
\* fail = k in 1..size_: relocating the k-th element throws (by copy only);
\* fail = size_ + 1: the new element's constructor throws.
EmplaceBack(x, value, fail) ==
    /\ ~ub /\ vec[x].alive
    /\ LET v  == vec[x]
           n  == v.size
           op == "EmplaceBack"
       IN IF n = v.cap
          THEN LET new_capacity == GrownCapacity(n)
                   al == Allocate(mem, new_capacity)
                   r  == FillNewData(etype, al.mem, v, al.addr, 0, 0, n, fail)
                   m2 == WriteSlots(r.mem, al.addr, n, 1, [i \in Cells |-> value])
                   m3 == DestroyN(m2, v.buf, 0, n)
               IN /\ Fits(x, new_capacity)
                  /\ IF DeadIn(mem, v.buf, 0, n)
                     THEN Undefined(op, x)
                     ELSE IF r.threw \/ fail = n + 1
                     THEN \* ~RawMemory of new_data releases the new block
                          Done(Deallocate(r.mem, al.addr), vec,
                               Thrown(Outcome(op, x, FALSE, TRUE, "realloc",
                                              -1, value,
                                              LiveIn(r.mem, al.addr)), fail))
                     ELSE Done(Deallocate(m3, v.buf),
                               [vec EXCEPT ![x] = [v EXCEPT !.buf = al.addr,
                                                   !.cap = new_capacity,
                                                   !.size = n + 1]],
                               Outcome(op, x, TRUE, FALSE, "realloc", -1,
                                       value, LiveIn(m3, v.buf)))
          ELSE IF fail = n + 1
               THEN Done(mem, vec,
                         Thrown(Outcome(op, x, FALSE, TRUE, "inplace", -1,
                                        value, 0), fail))
               ELSE Done(WriteSlots(mem, v.buf, n, 1, [i \in Cells |-> value]),
                         [vec EXCEPT ![x].size = n + 1],
                         Outcome(op, x, TRUE, FALSE, "inplace", -1, value, 0))

\* void PushBack(const T& value) and void PushBack(T&& value).
PushBack(x, value, fail) == EmplaceBack(x, value, fail)

\* PushBack(const T& value) with value referring to the element data_[i]
\* of the same container: EmplaceBack reads the reference when it constructs
\* the new element, in the reallocating branch after FillNewData has
\* relocated the elements.  fail as in EmplaceBack; the outcome's arg is i.
PushBackElement(x, i, fail) ==
    /\ ~ub /\ vec[x].alive /\ i \in 0..(vec[x].size - 1)
    /\ LET v  == vec[x]
           n  == v.size
           op == "PushBack(v[i])"
       IN IF n = v.cap
          THEN LET new_capacity == GrownCapacity(n)
                   al == Allocate(mem, new_capacity)
                   r  == FillNewData(etype, al.mem, v, al.addr, 0, 0, n, fail)
                   m2 == WriteSlots(r.mem, al.addr, n, 1,
                                    [u \in Cells |-> Slot(r.mem, v.buf, i)])
                   m3 == DestroyN(m2, v.buf, 0, n)
               IN /\ Fits(x, new_capacity)
                  /\ IF DeadIn(mem, v.buf, 0, n)
                     THEN Undefined(op, x)
                     ELSE IF r.threw \/ fail = n + 1
                     THEN Done(Deallocate(r.mem, al.addr), vec,
                               Thrown(Outcome(op, x, FALSE, TRUE, "realloc",
                                              -1, i, LiveIn(r.mem, al.addr)),
                                      fail))
                     ELSE Done(Deallocate(m3, v.buf),
                               [vec EXCEPT ![x] = [v EXCEPT !.buf = al.addr,
                                                   !.cap = new_capacity,
                                                   !.size = n + 1]],
                               Outcome(op, x, TRUE, FALSE, "realloc", -1, i,
                                       LiveIn(m3, v.buf)))
          ELSE IF DeadIn(mem, v.buf, i, 1)
               THEN Undefined(op, x)
               ELSE IF fail = n + 1
               THEN Done(mem, vec,
                         Thrown(Outcome(op, x, FALSE, TRUE, "inplace", -1, i,
                                        0), fail))
               ELSE Done(WriteSlots(mem, v.buf, n, 1,
                                    [u \in Cells |-> Slot(mem, v.buf, i)]),
                         [vec EXCEPT ![x].size = n + 1],
                         Outcome(op, x, TRUE, FALSE, "inplace", -1, i, 0))

\* The failure inputs of an append to x.
AppendFails(x) ==
    {0, vec[x].size + 1}
    \cup (IF UsesMove(etype) \/ vec[x].size # vec[x].cap
          THEN {} ELSE 1..vec[x].size)

\* ------------------------------------------------------------------------
\* Insert and erase.
\* ------------------------------------------------------------------------

\* Vector::FillBehindIndex: the handler destroys the new element and ends.
FillBehindIndex(t, m, v, new_data, index, fail) ==
    LET r == FillNewData(t, m, v, new_data, 0, 0, index, fail)
    IN IF r.threw
       THEN [mem |-> DestroyN(r.mem, new_data, index, 1), caught |-> TRUE]
       ELSE [mem |-> r.mem, caught |-> FALSE]

\* Vector::FillAfterIndex: the handler destroys new_data[0..index] and ends.
\* undefined: one of these slots holds no object.
FillAfterIndex(t, m, v, new_data, index, fail) ==
    LET r == FillNewData(t, m, v, new_data, index, index + 1,
                         v.size - index, fail)
    IN IF r.threw
       THEN [mem |-> DestroyN(r.mem, new_data, 0, index + 1), caught |-> TRUE,
             undefined |-> DeadIn(r.mem, new_data, 0, index + 1)]
       ELSE [mem |-> r.mem, caught |-> FALSE, undefined |-> FALSE]

\* The else branch of Emplace with size_ # 0, after new (end()) T(...) and
\* the first `moved` assignments of std::move_backward(begin() + index,
\* end() - 1, end()), which runs from the back.
ShiftedBack(t, m, v, moved) ==
    LET n == v.size
    IN WriteSlots(m, v.buf, 0, n + 1, [u \in Cells |->
           IF u = n THEN Slot(m, v.buf, n - 1)
           ELSE IF n - moved <= u THEN Slot(m, v.buf, u - 1)
           ELSE IF u = n - 1 - moved THEN MovedFrom(t, Slot(m, v.buf, u))
           ELSE Slot(m, v.buf, u)])

\* iterator Emplace(const_iterator pos, Args&&... ctor_args), pos being
\* begin() + index and the element constructed being value.
\*   Full container, fail = <<c, b, a>>: c = 1: the new element's constructor
\*   throws; b, a = k: relocating the k-th element before, after the index
\*   throws.
\*   Spare capacity, fail = <<k, 0, 0>>: the k-th of these throws: T elem(...),
\*   new (end()) T(...), the assignments of move_backward, data_[index] = ...
\*   wild: what the build makes of undefined behaviour, which is an invalid
\*   range [begin() + index, end() - 1) given to std::move_backward (index
\*   = size_, spare capacity) and a destructor call on a slot that holds no
\*   object (FillAfterIndex's handler after FillBehindIndex's): FALSE: a
\*   loop that does not run and a destructor without effect; TRUE: the
\*   program breaks.
Emplace(x, index, value, fail, wild) ==
    /\ ~ub /\ vec[x].alive /\ index \in 0..vec[x].size
    /\ LET v  == vec[x]
           n  == v.size
           op == "Emplace"
       IN IF n = v.cap
          THEN LET new_capacity == GrownCapacity(n)
                   al == Allocate(mem, new_capacity)
                   m1 == WriteSlots(al.mem, al.addr, index, 1,
                                    [i \in Cells |-> value])
                   rb == FillBehindIndex(etype, m1, v, al.addr, index,
                                         fail[2])
                   ra == FillAfterIndex(etype, rb.mem, v, al.addr, index,
                                        fail[3])
                   m4 == DestroyN(ra.mem, v.buf, 0, n)
               IN /\ Fits(x, new_capacity)
                  /\ wild => /\ fail[1] # 1
                             /\ ~DeadIn(mem, v.buf, 0, n)
                             /\ ra.undefined
                  /\ IF fail[1] = 1
                     THEN \* ~RawMemory of new_data
                          Done(Deallocate(al.mem, al.addr), vec,
                               Outcome(op, x, FALSE, TRUE, "realloc", -1,
                                       value, LiveIn(al.mem, al.addr)))
                     ELSE IF DeadIn(mem, v.buf, 0, n)
                             \/ (ra.undefined /\ wild)
                     THEN Undefined(op, x)
                     ELSE Done(Deallocate(m4, v.buf),
                               [vec EXCEPT ![x] = [v EXCEPT !.buf = al.addr,
                                                   !.cap = new_capacity,
                                                   !.size = n + 1]],
                               Outcome(op, x, TRUE, rb.caught \/ ra.caught,
                                       "realloc", index, value,
                                       LiveIn(m4, v.buf)))
          ELSE IF n = 0
          THEN /\ ~wild
               /\ IF fail[1] = 1
                  THEN Done(mem, vec,
                            Outcome(op, x, FALSE, TRUE, "inplace", -1,
                                    value, 0))
                  ELSE Done(WriteSlots(mem, v.buf, 0, 1, [i \in Cells |-> value]),
                            [vec EXCEPT ![x].size = 1],
                            Outcome(op, x, TRUE, FALSE, "inplace", index,
                                    value, 0))
          ELSE LET count == Max(0, n - 1 - index)
                   k     == fail[1]
                   moved == IF 3 <= k /\ k <= count + 2 THEN k - 3 ELSE count
                   m1    == ShiftedBack(etype, mem, v, moved)
               IN /\ wild => index = n /\ k \notin {1, 2}
                  /\ IF k = 1 \/ (k = 2 /\ ~DeadIn(mem, v.buf, n - 1, 1))
                     THEN Done(mem, vec,
                               Outcome(op, x, FALSE, TRUE, "inplace", -1,
                                       value, 0))
                     ELSE IF DeadIn(mem, v.buf, Min(index, n - 1),
                                    n - Min(index, n - 1)) \/ wild
                     THEN Undefined(op, x)
                     ELSE IF k >= 3
                     THEN \* size_ is not incremented
                          Done(m1, vec,
                               Outcome(op, x, FALSE, TRUE, "inplace", -1,
                                       value, 0))
                     ELSE Done(WriteSlots(m1, v.buf, index, 1,
                                          [i \in Cells |-> value]),
                               [vec EXCEPT ![x].size = n + 1],
                               Outcome(op, x, TRUE, FALSE, "inplace", index,
                                       value, 0))

\* iterator Insert(const_iterator pos, const T& value) and
\* iterator Insert(const_iterator pos, T&& value).
Insert(x, index, value, fail, wild) == Emplace(x, index, value, fail, wild)

\* The failure inputs of an insert into x at index.
InsertFails(x, index) ==
    LET n == vec[x].size
    IN IF n = vec[x].cap
       THEN {<<1, 0, 0>>}
            \cup (IF UsesMove(etype) THEN {<<0, 0, 0>>}
                  ELSE {<<0, b, a>> : b \in 0..index, a \in 0..(n - index)})
       ELSE {<<k, 0, 0>> : k \in
                IF n = 0 \/ ~MoveMayThrow(etype) THEN 0..1
                ELSE 0..(Max(0, n - 1 - index) + 3)}

\* ShiftedFront with the std::move of Erase left out.
ShiftedFrontNoShift(t, m, v, index, moved) == m

\* Erase after the first `moved` assignments of std::move(begin() + index
\* + 1, end(), begin() + index), which runs from the front.
ShiftedFront(t, m, v, index, moved) ==
    WriteSlots(m, v.buf, index, moved + 1, [u \in Cells |->
        IF u < index + moved THEN Slot(m, v.buf, u + 1)
        ELSE IF moved > 0 THEN MovedFrom(t, Slot(m, v.buf, u))
        ELSE Slot(m, v.buf, u)])

\* iterator Erase(const_iterator pos), pos being begin() + index.  fail = k:
\* the k-th assignment throws.
Erase(x, index, fail) ==
    /\ ~ub /\ vec[x].alive /\ index \in 0..(vec[x].size - 1)
    /\ LET v     == vec[x]
           n     == v.size
           count == n - 1 - index
           moved == IF 1 <= fail /\ fail <= count THEN fail - 1 ELSE count
           m1    == ShiftedFront(etype, mem, v, index, moved)
       IN IF DeadIn(mem, v.buf, index, n - index)
          THEN Undefined("Erase", x)
          ELSE IF moved < count
          THEN Done(m1, vec,
                    Outcome("Erase", x, FALSE, TRUE, "", -1, 0, 0))
          ELSE Done(DestroyN(m1, v.buf, n - 1, 1),
                    [vec EXCEPT ![x].size = n - 1],
                    Outcome("Erase", x, TRUE, FALSE, "", index, 0, 0))

\* The failure inputs of an erase from x at index.
EraseFails(x, index) ==
    IF MoveMayThrow(etype) THEN 0..(vec[x].size - 1 - index) ELSE {0}

\* void PopBack() noexcept.
PopBack(x) ==
    /\ ~ub /\ vec[x].alive /\ vec[x].size > 0
    /\ LET v == vec[x]
       IN IF DeadIn(mem, v.buf, v.size - 1, 1)
          THEN Undefined("PopBack", x)
          ELSE Done(DestroyN(mem, v.buf, v.size - 1, 1),
                    [vec EXCEPT ![x].size = v.size - 1],
                    Outcome("PopBack", x, TRUE, FALSE, "", -1, 0, 0))

\* ------------------------------------------------------------------------
\* The next-state relation.
\* ------------------------------------------------------------------------

\* The lists a caller constructs a Vector from.
Lists == UNION {[1..n -> Values] : n \in 0..MaxSlots}

PairLists == UNION {[1..n -> PairValues] : n \in 0..MaxSlots}

\* Two Vector objects and every operation on them.
Next ==
    \/ \E x \in Objs : DefaultConstruct(x)
    \/ \E x \in Objs : \E n \in 0..MaxSlots : \E f \in 0..n :
           SizedConstruct(x, n, f)
    \/ \E x \in Objs : \E l \in PairLists : \E f \in 0..Len(l) :
           ListConstruct(x, l, f)
    \/ \E x, y \in Objs : \E f \in 0..vec[y].size : CopyConstruct(x, y, f)
    \/ \E x, y \in Objs : MoveConstruct(x, y)
    \/ \E x \in Objs : Destroy(x)
    \/ \E x, y \in Objs : Swap(x, y)
    \/ \E x, y \in Objs : \E f \in 0..vec[y].size : CopyAssign(x, y, f)
    \/ \E x, y \in Objs : MoveAssign(x, y)
    \/ \E x \in Objs : \E n \in 0..MaxSlots : \E f \in RelocationFails(x) :
           Reserve(x, n, f)
    \/ \E x \in Objs : \E n \in 0..MaxSlots :
           \E f \in RelocationFails(x) \cup (vec[x].size + 1)..n :
               Resize(x, n, f)
    \/ \E x \in Objs : \E val \in PairValues : \E f \in AppendFails(x) :
           PushBack(x, val, f)
    \/ \E x \in Objs : \E i \in 0..(vec[x].size - 1) :
           \E f \in AppendFails(x) : PushBackElement(x, i, f)
    \/ \E x \in Objs : \E i \in 0..vec[x].size : \E val \in PairValues :
           \E f \in InsertFails(x, i) : \E w \in BOOLEAN :
               Insert(x, i, val, f, w)
    \/ \E x \in Objs : \E i \in 0..(vec[x].size - 1) :
           \E f \in EraseFails(x, i) : Erase(x, i, f)
    \/ \E x \in Objs : PopBack(x)

Spec == Init /\ [][Next]_vars

\* One Vector object, a, and every operation that needs no second one.
One == {"a"}

NextSingle ==
    \/ \E x \in One : DefaultConstruct(x)
    \/ \E x \in One : \E n \in 0..MaxSlots : \E f \in 0..n :
           SizedConstruct(x, n, f)
    \/ \E x \in One : \E l \in Lists : \E f \in 0..Len(l) :
           ListConstruct(x, l, f)
    \/ \E x \in One : Destroy(x)
    \/ \E x \in One : Swap(x, x)
    \/ \E x \in One : CopyAssign(x, x, 0)
    \/ \E x \in One : MoveAssign(x, x)
    \/ \E x \in One : \E n \in 0..MaxSlots : \E f \in RelocationFails(x) :
           Reserve(x, n, f)
    \/ \E x \in One : \E n \in 0..MaxSlots :
           \E f \in RelocationFails(x) \cup (vec[x].size + 1)..n :
               Resize(x, n, f)
    \/ \E x \in One : \E val \in Values : \E f \in AppendFails(x) :
           PushBack(x, val, f)
    \/ \E x \in One : \E i \in 0..(vec[x].size - 1) :
           \E f \in AppendFails(x) : PushBackElement(x, i, f)
    \/ \E x \in One : \E i \in 0..vec[x].size : \E val \in Values :
           \E f \in InsertFails(x, i) : \E w \in BOOLEAN :
               Insert(x, i, val, f, w)
    \/ \E x \in One : \E i \in 0..(vec[x].size - 1) :
           \E f \in EraseFails(x, i) : Erase(x, i, f)
    \/ \E x \in One : PopBack(x)

SpecSingle == Init /\ [][NextSingle]_vars

\* ------------------------------------------------------------------------
\* Properties.
\* ------------------------------------------------------------------------

\* The invariant of Vector: size_ <= capacity_, the block has capacity_
\* slots, the slots [0, size_) hold live objects and the slots beyond none.
Valid(m, v) ==
    /\ v.size <= v.cap
    /\ Len(Block(m, v.buf)) = v.cap
    /\ \A i \in 0..(v.size - 1) : Slot(m, v.buf, i) # Dead
    /\ \A i \in v.size..(v.cap - 1) : Slot(m, v.buf, i) = Dead

\* s with v inserted before position p (from 0), and s without position p.
InsertAt(s, p, v) == SubSeq(s, 1, p) \o <<v>> \o SubSeq(s, p + 1, Len(s))

RemoveAt(s, p) == SubSeq(s, 1, p) \o SubSeq(s, p + 2, Len(s))

RECURSIVE IsPowerOfTwo(_)
IsPowerOfTwo(c) == c = 1 \/ (c > 1 /\ c % 2 = 0 /\ IsPowerOfTwo(c \div 2))

\* The capacity after k appends from empty: 0, 1, 2, 4, 4, 8, ...
DoubledCapacity(k) ==
    IF k = 0 THEN 0
    ELSE CHOOSE c \in k..(2 * k - 1) : IsPowerOfTwo(c)

CopyOps == {"Vector(const&)", "operator=(const&)"}

MoveOps == {"Vector(&&)", "operator=(&&)"}

\* C1: after any sequence of operations, every container has size <=
\* capacity, live objects in all slots [0, size) and none in [size,
\* capacity).
C1_ClassInvariant ==
    \A x \in Objs : vec[x].alive => Valid(mem, vec[x])

\* C2: an operation inside which an element constructor or assignment
\* threw does not return: the failure reaches its caller.
C2_FailureReachesCaller == last.failed => ~last.ok

\* C3: an Emplace on a full container inside which an element construction
\* fails leaves every container and the heap as they were (the new block is
\* released with no live object in it).
C3_InsertFullRollback ==
    [][(last'.op = "Emplace" /\ last'.path = "realloc" /\ last'.failed)
          => (vec' = vec /\ mem' = mem /\ last'.leak = 0)]_vars

\* C4: an Emplace at p of v inside which nothing failed, on a container
\* with the elements s, leaves the elements s[0..p), v, s[p..).
C4_InsertYieldsSequence ==
    [][\A x \in Objs :
          (/\ last'.op = "Emplace" /\ last'.obj = x
           /\ last'.ok /\ ~last'.failed
           /\ Valid(mem, vec[x]))
          => /\ vec'[x].size = vec[x].size + 1
             /\ Elems(mem', vec'[x])
                    = InsertAt(Elems(mem, vec[x]), last'.ret, last'.arg)]_vars

\* C5: an Emplace at p that does not reallocate, followed at once by an
\* Erase at p, leaves the elements the container had before the Emplace.
C5_InsertThenEraseRestores ==
    [][(/\ last.op = "Emplace" /\ last.ok /\ ~last.failed
        /\ last.path = "inplace"
        /\ \A i \in DOMAIN last.before : last.before[i] # Dead
        /\ last'.op = "Erase" /\ last'.ok
        /\ last'.obj = last.obj /\ last'.ret = last.ret)
          => Elems(mem', vec'[last.obj]) = last.before]_vars

\* C6: a default-constructed container after k appends that returned holds
\* the k values in the order pushed, with the capacity 1, 2, 4, 4, ... of
\* doubling; and every append or insert that returns leaves size + 1
\* elements and the capacity max(1, 2 * size) if the container was full,
\* the capacity it had if not.
C6_AppendGrowth ==
    [][/\ last'.pushed # NoRun
          => LET v == vec'[last'.obj]
             IN /\ v.size = Len(last'.pushed)
                /\ Elems(mem', v) = last'.pushed
                /\ v.cap = DoubledCapacity(Len(last'.pushed))
       /\ \A x \in Objs :
             (/\ last'.op \in {"EmplaceBack", "Emplace", "PushBack(v[i])"}
              /\ last'.obj = x /\ last'.ok)
             => /\ vec'[x].size = vec[x].size + 1
                /\ vec'[x].cap = IF vec[x].size = vec[x].cap
                                 THEN Max(1, 2 * vec[x].size)
                                 ELSE vec[x].cap]_vars

\* C6's case: three appends to a default-constructed container, of values
\* that are not all the same.
C6_Witness ==
    /\ last.pushed # NoRun /\ Len(last.pushed) = 3
    /\ last.pushed[1] # last.pushed[2]
    /\ vec[last.obj].cap = 4

\* C7: on a valid container an Erase at p < size that returns and a PopBack
\* with size > 0 each leave size - 1 elements, the capacity unchanged and
\* the other elements in their order; Erase removes the element at the
\* position it returns, PopBack the last one.
C7_EraseAndPopBack ==
    [][\A x \in Objs :
          (last'.obj = x /\ Valid(mem, vec[x]))
          => /\ (last'.op = "Erase" /\ last'.ok)
                => /\ vec'[x].size = vec[x].size - 1
                   /\ vec'[x].cap = vec[x].cap
                   /\ last'.ret \in 0..vec'[x].size
                   /\ Elems(mem', vec'[x])
                          = RemoveAt(Elems(mem, vec[x]), last'.ret)
             /\ last'.op = "PopBack"
                => /\ last'.ok
                   /\ vec'[x].size = vec[x].size - 1
                   /\ vec'[x].cap = vec[x].cap
                   /\ Elems(mem', vec'[x])
                          = SubSeq(Elems(mem, vec[x]), 1, vec[x].size - 1)
             /\ last'.op \in {"Erase", "PopBack"}
                => ~ub' /\ Valid(mem', vec'[x])]_vars

\* C7's case: the last element erased, the returned position being the
\* end, with two different elements before it.
C7_Witness ==
    /\ last.op = "Erase" /\ last.ok
    /\ last.ret = vec[last.obj].size /\ last.ret > 1
    /\ Slot(mem, vec[last.obj].buf, 0) # Slot(mem, vec[last.obj].buf, 1)

\* C8: a copy (by construction or assignment) has the source's elements in
\* a block of its own; no two containers hold one block; and an operation
\* on one container that does not break the program, other than a swap
\* with or a move from the other, leaves the other's size, capacity, block
\* and elements as they were.
C8_DeepIndependence ==
    [][\A x, y \in Objs : x # y =>
          /\ (/\ last'.obj = x /\ last'.op \in CopyOps /\ last'.ok
              /\ last'.path # "self" /\ Valid(mem, vec[y]))
             => /\ Elems(mem', vec'[x]) = Elems(mem, vec[y])
                /\ vec'[x].size = vec[y].size
          /\ vec'[x].buf # Null => vec'[x].buf # vec'[y].buf
          /\ (last'.obj = x /\ ~ub' /\ last'.op \notin MoveOps \cup {"Swap"})
             => /\ vec'[y] = vec[y]
                /\ Block(mem', vec[y].buf) = Block(mem, vec[y].buf)]_vars

\* C8's case: the other container being a live non-empty one, a container
\* with elements is changed.
C8_Witness ==
    /\ last.op \in {"Erase", "Emplace", "EmplaceBack"} /\ last.ok
    /\ last.obj = "b" /\ vec["b"].size > 0
    /\ vec["a"].alive /\ vec["a"].size > 0
    /\ Elems(mem, vec["a"]) # Elems(mem, vec["b"])

\* C9: a move construction or a move assignment from another container
\* leaves the source with size 0 and capacity 0 and the destination with
\* the source's size, capacity and block, the block's slots untouched.
C9_MoveTransfersBlock ==
    [][\A x, y \in Objs :
          (/\ x # y /\ last'.obj = x /\ last'.op \in MoveOps
           /\ last'.path # "self")
          => /\ last'.ok
             /\ vec'[y].size = 0 /\ vec'[y].cap = 0 /\ vec'[y].buf = Null
             /\ vec'[x].size = vec[y].size
             /\ vec'[x].cap = vec[y].cap
             /\ vec'[x].buf = vec[y].buf
             /\ Block(mem', vec'[x].buf) = Block(mem, vec[y].buf)]_vars

\* C9's cases: elements moved into a new container, and into one that
\* had storage.
C9_Witness ==
    /\ last.op \in MoveOps /\ last.path # "self"
    /\ vec[last.obj].size > 1

\* C10: Reserve(n) on a valid container leaves the size and the elements;
\* with n <= capacity it changes nothing at all; with n > capacity, when it
\* returns, the capacity is n and the old block is released with no live
\* object in it.
C10_Reserve ==
    [][\A x \in Objs :
          (last'.op = "Reserve" /\ last'.obj = x /\ Valid(mem, vec[x]))
          => /\ ~ub'
             /\ vec'[x].size = vec[x].size
             /\ Elems(mem', vec'[x]) = Elems(mem, vec[x])
             /\ last'.arg <= vec[x].cap
                => (last'.ok /\ vec' = vec /\ mem' = mem)
             /\ (last'.arg > vec[x].cap /\ last'.ok)
                => /\ vec'[x].cap = last'.arg
                   /\ vec'[x].buf # vec[x].buf
                   /\ vec[x].buf # Null => mem'[vec[x].buf] = <<>>
                   /\ last'.leak = 0
                   /\ Valid(mem', vec'[x])]_vars

\* C10's case: a container with different elements is given a larger block.
C10_Witness ==
    /\ last.op = "Reserve" /\ last.ok /\ last.path = "realloc"
    /\ vec[last.obj].size > 1
    /\ Slot(mem, vec[last.obj].buf, 0) # Slot(mem, vec[last.obj].buf, 1)

\* C11: a Reserve in which a copy of an element throws (the element type
\* is relocated by copy) throws to its caller and leaves the container's
\* size, capacity, block and elements and the whole heap as they were: the
\* copies made are destroyed and the new block is released.
C11_ReserveRollback ==
    [][\A x \in Objs :
          (last'.op = "Reserve" /\ last'.obj = x /\ last'.failed)
          => /\ ~UsesMove(etype)
             /\ last'.arg > vec[x].cap
             /\ ~last'.ok
             /\ last'.leak = 0
             /\ vec' = vec
             /\ mem' = mem]_vars

\* C11's case: the copy of the second of three elements threw, one copy
\* having been made in the new block.
C11_Witness ==
    /\ last.op = "Reserve" /\ last.failed /\ last.thrown = 2
    /\ vec[last.obj].size = 3
    /\ Slot(mem, vec[last.obj].buf, 0) # DefaultValue

\* C12: a Vector(size_t) or a copy construction in which the construction
\* of an element throws throws to its caller, constructs no container,
\* releases the block it allocated with no live object left in it, and
\* leaves every other container and the heap as they were.
C12_ConstructorFailure ==
    [][(last'.op \in {"Vector(n)", "Vector(const&)"} /\ last'.failed)
          => /\ ~last'.ok
             /\ last'.thrown >= 1
             /\ last'.leak = 0
             /\ ~vec'[last'.obj].alive
             /\ vec' = vec
             /\ mem' = mem]_vars

\* C12's case: the copy of the second element of the source threw in a
\* copy construction, one copy having been made.
C12_Witness ==
    /\ last.op = "Vector(const&)" /\ last.failed /\ last.thrown = 2
    /\ \E y \in Objs \ {last.obj} : vec[y].alive /\ vec[y].size >= 2

\* C13: a copy assignment of y to another container x that returns, both
\* valid, leaves x with y's size and elements and y as it was; x has a new
\* block, of capacity y's size, if y's size exceeded x's capacity, and its
\* block and capacity if not, y being longer than, as long as or shorter
\* than x; and an assignment of a container to itself (the branch taken
\* when this = &rhs) changes nothing.
C13_CopyAssign ==
    [][\A x, y \in Objs :
          /\ (/\ x # y /\ last'.op = "operator=(const&)" /\ last'.obj = x
              /\ last'.path # "self" /\ last'.ok
              /\ Valid(mem, vec[x]) /\ Valid(mem, vec[y]))
             => /\ vec'[x].size = vec[y].size
                /\ Elems(mem', vec'[x]) = Elems(mem, vec[y])
                /\ vec'[y] = vec[y]
                /\ Block(mem', vec[y].buf) = Block(mem, vec[y].buf)
                /\ Valid(mem', vec'[x])
                /\ last'.leak = 0
                /\ IF vec[y].size > vec[x].cap
                   THEN /\ last'.path = "realloc"
                        /\ vec'[x].cap = vec[y].size
                        /\ vec'[x].buf \notin {vec[x].buf, vec[y].buf}
                        /\ vec[x].buf # Null => mem'[vec[x].buf] = <<>>
                   ELSE /\ last'.path = "reuse"
                        /\ vec'[x].cap = vec[x].cap
                        /\ vec'[x].buf = vec[x].buf
          /\ (last'.op = "operator=(const&)" /\ last'.path = "self")
             => (last'.ok /\ vec' = vec /\ mem' = mem)]_vars

\* C13's case: a shorter container assigned to a longer one, which keeps
\* its block.
C13_Witness ==
    /\ last.op = "operator=(const&)" /\ last.ok /\ last.path = "reuse"
    /\ vec[last.obj].size = 1 /\ vec[last.obj].cap = 3
    /\ Slot(mem, vec[last.obj].buf, 0) # DefaultValue

\* C14: a Resize(n) of a valid container that returns leaves size n and
\* the first min(old size, n) elements as they were; with n <= old size
\* the capacity and the block are kept and the slots from n on hold no
\* object; with n > old size the elements from old size on have the
\* default value and the capacity is max(old capacity, n).
C14_Resize ==
    [][\A x \in Objs :
          (/\ last'.op = "Resize" /\ last'.obj = x /\ last'.ok
           /\ Valid(mem, vec[x]))
          => LET n    == last'.arg
                 old  == vec[x].size
                 keep == Min(old, n)
             IN /\ vec'[x].size = n
                /\ SubSeq(Elems(mem', vec'[x]), 1, keep)
                       = SubSeq(Elems(mem, vec[x]), 1, keep)
                /\ Valid(mem', vec'[x])
                /\ last'.leak = 0
                /\ n <= old
                   => /\ vec'[x].cap = vec[x].cap
                      /\ vec'[x].buf = vec[x].buf
                /\ n > old
                   => /\ \A i \in old..(n - 1) :
                             Slot(mem', vec'[x].buf, i) = DefaultValue
                      /\ vec'[x].cap = Max(vec[x].cap, n)]_vars

\* C14's cases: a container with an element that has not the default value
\* was grown into a new block.
C14_Witness ==
    /\ last.op = "Resize" /\ last.ok /\ last.path = "realloc"
    /\ vec[last.obj].size = 3
    /\ Slot(mem, vec[last.obj].buf, 0) # DefaultValue
    /\ Slot(mem, vec[last.obj].buf, 2) = DefaultValue

\* The containers whose data_ refers to the block at address a.
Owners(a) == {x \in Objs : vec[x].buf = a}

\* C15: between operations every allocated block is the block of exactly
\* one container, of that container's capacity; a container without a
\* block has capacity 0 and one that is not constructed has none; the
\* source of a move is left without a block; and no block was released
\* when it was not allocated.
C15_BlockOwnership ==
    /\ \A a \in Addrs :
          /\ mem[a] # ReleasedTwice
          /\ mem[a] # <<>> => Cardinality(Owners(a)) = 1
    /\ \A x \in Objs :
          /\ vec[x].buf # Null
             => /\ vec[x].alive
                /\ mem[vec[x].buf] # <<>>
                /\ Len(mem[vec[x].buf]) = vec[x].cap
          /\ vec[x].buf = Null => vec[x].cap = 0
    /\ (last.op \in MoveOps /\ last.path # "self")
       => \A y \in Objs \ {last.obj} :
             vec[y].buf = Null /\ vec[y].cap = 0

\* C15's case: a container with a block took the block of another by move
\* assignment, the source is left without one and one block is allocated.
C15_Witness ==
    /\ last.op = "operator=(&&)" /\ last.path # "self" /\ last.leak > 0
    /\ vec[last.obj].size = 2
    /\ Cardinality({a \in Addrs : mem[a] # <<>>}) = 1

\* C16: no operation releases a block in which an object is still alive,
\* whether it returns or throws.
C16_DestroyedBeforeRelease == last.leak = 0

\* C17: a PushBack(v[i]) of a valid container that returns leaves the
\* elements it had as they were, followed by the value element i had.
C17_AliasedAppend ==
    [][\A x \in Objs :
          (/\ last'.op = "PushBack(v[i])" /\ last'.obj = x /\ last'.ok
           /\ Valid(mem, vec[x]))
          => Elems(mem', vec'[x])
                = Append(Elems(mem, vec[x]),
                         Elems(mem, vec[x])[last'.arg + 1])]_vars

\* C18: an EmplaceBack or PushBack on a valid container in which the
\* constructor of the new element throws throws to its caller and leaves
\* the container's size, capacity and elements as they were.
C18_AppendFailure ==
    [][\A x \in Objs :
          (/\ last'.op = "EmplaceBack" /\ last'.obj = x
           /\ last'.thrown = vec[x].size + 1
           /\ Valid(mem, vec[x]))
          => /\ ~last'.ok
             /\ vec'[x].size = vec[x].size
             /\ vec'[x].cap = vec[x].cap
             /\ Elems(mem', vec'[x]) = Elems(mem, vec[x])]_vars

=============================================================================
